---- MODULE Spec2Model ----
(***************************************************************************)
(* Model of the state store and the request orchestration of index.tsx:    *)
(* the upload handler, the prompt handlers, the single generate flow and   *)
(* the batch flow, with the external model and the file reader as mocked   *)
(* collaborators whose outcomes are nondeterministic.                      *)
(*                                                                         *)
(* Strings are sequences of tokens.  Each of the delimiter characters      *)
(* ':' ';' ',' that getMimeType / getBase64Data search for is a token of   *)
(* its own, so indexOf and substring act on token positions.               *)
(* null is the empty sequence Null and a present value v is Some(v), so    *)
(* that generatedImages = null and generatedImages = [] stay different.    *)
(***************************************************************************)
EXTENDS Integers, Sequences, FiniteSets, TLC

\* ---- bounds ----
\* handleImageUpload activations that may wait for the file reader at once
MaxUploads == 1
\* generation activations (handleGenerate / handleGenerateAll) alive at once
MaxFlows == 2

\* ---- option values ----
Null == <<>>
Some(v) == <<v>>

\* ---- strings ----
\* String.prototype.indexOf(c): 0-based position of the first c, or -1
IndexOf(s, c) ==
  IF \E i \in 1..Len(s) : s[i] = c
  THEN (CHOOSE i \in 1..Len(s) : s[i] = c /\ \A j \in 1..(i-1) : s[j] # c) - 1
  ELSE -1

Clamp(n, len) == IF n < 0 THEN 0 ELSE IF n > len THEN len ELSE n

\* String.prototype.substring(a, b): both ends clamped to 0..length and
\* swapped when a > b
Substring(s, a, b) ==
  LET ca == Clamp(a, Len(s))
      cb == Clamp(b, Len(s))
      lo == IF ca <= cb THEN ca ELSE cb
      hi == IF ca <= cb THEN cb ELSE ca
  IN  SubSeq(s, lo + 1, hi)

\* String.prototype.startsWith(prefix)
StartsWith(s, prefix) ==
  /\ Len(prefix) <= Len(s)
  /\ SubSeq(s, 1, Len(prefix)) = prefix

\* template literal `data:${mimeType};base64,${base64Data}`
DataUrl(mimeType, base64Data) ==
  <<"data", ":">> \o mimeType \o <<";", "base64", ",">> \o base64Data

\* mutation: the ':' the search stops at is kept
getMimeType_KeepsColon(base64) ==
  Substring(base64, IndexOf(base64, ":"), IndexOf(base64, ";"))

getMimeType(base64) ==
  Substring(base64, IndexOf(base64, ":") + 1, IndexOf(base64, ";"))

getBase64Data(base64) ==
  Substring(base64, IndexOf(base64, ",") + 1, Len(base64))

\* ---- constants of the program ----
prompts ==
  << [name |-> "Natural Elegance",  prompt |-> <<"light wooden table">>],
     [name |-> "Minimalist Indoor", prompt |-> <<"white marble table">>],
     [name |-> "Cozy Style",        prompt |-> <<"fabric sofa">>],
     [name |-> "Street Lifestyle",  prompt |-> <<"outdoor cafe chair">>],
     [name |-> "Editorial Premium", prompt |-> <<"white linen cloth">>] >>

editingInstructions == <<"Keep the product exactly the same.">>

ReadErrorMessage == <<"Could not read the selected image file.">>
NoImageMessage ==
  <<"The model did not return an image. Please try a different prompt.">>

\* ---- inputs ----
\* the files a user can pick: two images and one text file
Files ==
  { [name |-> "bag.png",   type |-> <<"image/", "png">>,  content |-> <<"PNG1">>],
    [name |-> "bag.jpg",   type |-> <<"image/", "jpeg">>, content |-> <<"JPG2">>],
    [name |-> "notes.txt", type |-> <<"text/", "plain">>, content |-> <<"TXT3">>] }

\* input.files of the change event: no file, or one file
FileLists == {<<>>} \cup { <<f>> : f \in Files }

\* values the textarea is edited to
TypedPrompts == { <<>>, <<"a red bag on a beach">> }

\* the preset buttons the user clicks
ClickedPresets == {3}

\* FileReader.readAsDataURL result handed to resolve
fileToBase64(file) == DataUrl(file.type, file.content)

VARIABLES
  state,      \* the process-wide application state
  uploads,    \* handleImageUpload activations waiting at `await fileToBase64`
  flows,      \* generation activations waiting at `await generateContent`
  ev          \* the handler step that ran last, as the instrumented test sees it

vars == <<state, uploads, flows, ev>>

\* state = { ...state, ...newState }
setState(s, newState) ==
  [k \in DOMAIN s |-> IF k \in DOMAIN newState THEN newState[k] ELSE s[k]]

\* observation of a handler step: the handler, the files of a change event,
\* and for the last step of a flow the calls the mocked client saw from it
\* (request text and image served, in issue order) and whether an upload
\* continuation ran while the flow was in flight
Event(op, files, log, disturbed) ==
  [op |-> op, files |-> files, log |-> log, disturbed |-> disturbed]

Step(op) == Event(op, <<>>, <<>>, FALSE)

Init ==
  /\ state = [originalImage |-> Null, generatedImages |-> Null,
              prompt |-> <<>>, isLoading |-> FALSE, error |-> Null]
  /\ uploads = <<>>
  /\ flows = <<>>
  /\ ev = Step("init")

RemoveAt(s, i) == SubSeq(s, 1, i - 1) \o SubSeq(s, i + 1, Len(s))

\* every flow in flight has seen an upload continuation run
Disturb(fs) == [i \in 1..Len(fs) |-> [fs[i] EXCEPT !.disturbed = TRUE]]

\* ---- handleImageUpload ----
\* mutation: the type of the file is not looked at
UploadAccepts_AnyFile(files) == files # <<>>

\* `file && file.type.startsWith('image/')`
UploadAccepts(files) == files # <<>> /\ StartsWith(files[1].type, <<"image/">>)

\* the synchronous part, up to `await fileToBase64(file)`
handleImageUpload(files) ==
  /\ ev' = Event("upload", files, <<>>, FALSE)
  /\ IF UploadAccepts(files)
     THEN /\ Len(uploads) < MaxUploads
          /\ uploads' = Append(uploads, files[1])
     ELSE uploads' = uploads
  /\ UNCHANGED <<state, flows>>

\* mutation: the error of an earlier step is left on display
UploadedState_KeepsError(s, file, base64) ==
  setState(s, [originalImage |-> Some([file |-> file, base64 |-> base64]),
               generatedImages |-> Null])

\* mutation: a new image also ends the loading display
UploadedState_ResetsLoading(s, file, base64) ==
  setState(s, [originalImage |-> Some([file |-> file, base64 |-> base64]),
               generatedImages |-> Null, error |-> Null, isLoading |-> FALSE])

\* setState({ originalImage: { file, base64 }, generatedImages: null, error: null })
UploadedState(s, file, base64) ==
  setState(s, [originalImage |-> Some([file |-> file, base64 |-> base64]),
               generatedImages |-> Null, error |-> Null])

\* reader.onload: the continuation after the await
UploadResolved(i) ==
  /\ i \in 1..Len(uploads)
  /\ state' = UploadedState(state, uploads[i], fileToBase64(uploads[i]))
  /\ ev' = Step("uploadResolved")
  /\ uploads' = RemoveAt(uploads, i)
  /\ flows' = Disturb(flows)

\* mutation: the unreadable file also drops the image loaded before
RejectedState_ClearsImage(s) ==
  setState(s, [originalImage |-> Null, error |-> Some(ReadErrorMessage)])

\* mutation: the failure is only logged
RejectedState_OnlyLogs(s) == s

\* setState({ error: 'Could not read the selected image file.' })
RejectedState(s) == setState(s, [error |-> Some(ReadErrorMessage)])

\* reader.onerror: the catch branch
UploadRejected(i) ==
  /\ i \in 1..Len(uploads)
  /\ state' = RejectedState(state)
  /\ ev' = Step("uploadRejected")
  /\ uploads' = RemoveAt(uploads, i)
  /\ flows' = Disturb(flows)

\* ---- handlePresetClick / handlePromptInput ----
handlePresetClick(promptText) ==
  /\ state' = setState(state, [prompt |-> promptText])
  /\ ev' = Step("presetClick")
  /\ UNCHANGED <<uploads, flows>>

handlePromptInput(value) ==
  /\ state' = setState(state, [prompt |-> value])
  /\ ev' = Step("promptInput")
  /\ UNCHANGED <<uploads, flows>>

\* ---- the external model (mocked) ----
\* contents: { parts: [imagePart, textPart] } of one generateContent call;
\* s.originalImage is never null where the code builds a request: both
\* guards test it and no setState writes null to it
BuildRequest(s, promptText) ==
  [data     |-> getBase64Data(s.originalImage[1].base64),
   mimeType |-> getMimeType(s.originalImage[1].base64),
   text     |-> promptText \o <<" ">> \o editingInstructions]

TextPart == [text |-> Some(<<"Here is your image">>), inlineData |-> Null]
ImagePart(mimeType, data) ==
  [text |-> Null, inlineData |-> Some([mimeType |-> mimeType, data |-> data])]

\* what a call may settle with: a rejection, a response with text only, or a
\* response whose first image block comes after a text block and is followed
\* by a second image block; the images are renderings of the request's image.
\* served is the mock's own note of the image it answered with, if any
Scene(req) == [mimeType |-> <<"image/", "png">>, data |-> req.data \o <<"+scene">>]
Alternate(req) == [mimeType |-> <<"image/", "webp">>, data |-> req.data \o <<"+alt">>]

Responses(req) ==
  { [ok |-> FALSE, parts |-> <<>>, message |-> <<"503 Service Unavailable">>,
     served |-> Null],
    [ok |-> TRUE,  parts |-> <<TextPart>>, message |-> <<>>, served |-> Null],
    [ok |-> TRUE,
     parts |-> << TextPart,
                  ImagePart(Scene(req).mimeType, Scene(req).data),
                  ImagePart(Alternate(req).mimeType, Alternate(req).data) >>,
     message |-> <<>>, served |-> Some(Scene(req))] }

\* an activation that has issued req and waits for it; log is what the
\* mocked client recorded of the activation's earlier calls
Flow(kind, index, currentResults, req, log, disturbed) ==
  [kind |-> kind, index |-> index, currentResults |-> currentResults,
   req |-> req, log |-> log, disturbed |-> disturbed]

Logged(f, response) ==
  Append(f.log, [text |-> f.req.text, served |-> response.served])

\* mocked client: number of calls issued and not yet settled
Outstanding == Len(flows)

\* mutation: the loop has no break, so its last image block wins
FirstImagePart_NoBreak(parts) ==
  IF \E k \in 1..Len(parts) : parts[k].inlineData # Null
  THEN CHOOSE k \in 1..Len(parts) :
         /\ parts[k].inlineData # Null
         /\ \A j \in (k+1)..Len(parts) : parts[j].inlineData = Null
  ELSE 0

\* `for (const part of parts) { if (part.inlineData) { ...; break; } }`:
\* position of the block the loop body runs for, 0 when it runs for none
FirstImagePart(parts) ==
  IF \E k \in 1..Len(parts) : parts[k].inlineData # Null
  THEN CHOOSE k \in 1..Len(parts) :
         /\ parts[k].inlineData # Null
         /\ \A j \in 1..(k-1) : parts[j].inlineData = Null
  ELSE 0

NewImage(name, part) ==
  [name |-> name,
   base64 |-> DataUrl(part.inlineData[1].mimeType, part.inlineData[1].data)]

\* ---- handleGenerate ----
\* mutation: an empty prompt does not return early
GenerateGuard_NoPromptCheck(s) == ~(s.originalImage = Null \/ s.isLoading)

\* mutation: a flow in flight does not return early
GenerateGuard_NoLoadingCheck(s) == ~(s.originalImage = Null \/ s.prompt = <<>>)

\* negation of `if (!state.originalImage || !state.prompt || state.isLoading) return`
GenerateGuard(s) ==
  ~(s.originalImage = Null \/ s.prompt = <<>> \/ s.isLoading)

\* the synchronous part, up to `await ai.models.generateContent`
handleGenerate ==
  /\ ev' = Step("generate")
  /\ IF GenerateGuard(state)
     THEN /\ Len(flows) < MaxFlows
          /\ LET s1 == setState(state, [isLoading |-> TRUE, error |-> Null,
                                        generatedImages |-> Null])
             IN  /\ state' = s1
                 /\ flows' = Append(flows,
                      Flow("single", 0, <<>>, BuildRequest(s1, s1.prompt),
                           <<>>, FALSE))
     ELSE UNCHANGED <<state, flows>>
  /\ UNCHANGED uploads

\* mutation: isLoading is reset at the end of the try block, not in a finally
SingleOutcome_NoFinally(s, response) ==
  LET k == IF response.ok THEN FirstImagePart(response.parts) ELSE 0
  IN  IF k # 0
      THEN setState(s, [generatedImages |->
               Some(<<NewImage("Custom Prompt", response.parts[k])>>),
               isLoading |-> FALSE])
      ELSE setState(s, [error |->
               Some(<<"An error occurred: ">> \o
                    (IF response.ok THEN NoImageMessage ELSE response.message))])

\* mutation: a response without image is not turned into an error
SingleOutcome_SwallowsNoImage(s, response) ==
  LET k == IF response.ok THEN FirstImagePart(response.parts) ELSE 0
      s2 == IF k # 0
            THEN setState(s, [generatedImages |->
                     Some(<<NewImage("Custom Prompt", response.parts[k])>>)])
            ELSE IF response.ok THEN s
            ELSE setState(s, [error |->
                     Some(<<"An error occurred: ">> \o response.message)])
  IN  setState(s2, [isLoading |-> FALSE])

\* the rest of the try block, the catch and the finally, after the await;
\* a rejected call and a response without image both end in the catch
SingleOutcome(s, response) ==
  LET k == IF response.ok THEN FirstImagePart(response.parts) ELSE 0
      s2 == IF k # 0
            THEN setState(s, [generatedImages |->
                     Some(<<NewImage("Custom Prompt", response.parts[k])>>)])
            ELSE setState(s, [error |->
                     Some(<<"An error occurred: ">> \o
                          (IF response.ok THEN NoImageMessage
                                          ELSE response.message))])
  IN  setState(s2, [isLoading |-> FALSE])

GenerateSettled(i) ==
  /\ i \in 1..Len(flows)
  /\ flows[i].kind = "single"
  /\ \E response \in Responses(flows[i].req) :
       /\ state' = SingleOutcome(state, response)
       /\ ev' = Event("generateDone", <<>>, Logged(flows[i], response),
                      flows[i].disturbed)
  /\ flows' = RemoveAt(flows, i)
  /\ UNCHANGED uploads

\* ---- handleGenerateAll ----
\* mutation: a flow in flight does not return early
GenerateAllGuard_NoLoadingCheck(s) == ~(s.originalImage = Null)

\* negation of `if (!state.originalImage || state.isLoading) return`
GenerateAllGuard(s) == ~(s.originalImage = Null \/ s.isLoading)

\* the synchronous part, up to the first `await ai.models.generateContent`
handleGenerateAll ==
  /\ ev' = Step("generateAll")
  /\ IF GenerateAllGuard(state)
     THEN /\ Len(flows) < MaxFlows
          /\ LET s1 == setState(state, [isLoading |-> TRUE, error |-> Null,
                                        generatedImages |-> Some(<<>>)])
             IN  /\ state' = s1
                 /\ flows' = Append(flows,
                      Flow("batch", 1, <<>>, BuildRequest(s1, prompts[1].prompt),
                           <<>>, FALSE))
     ELSE UNCHANGED <<state, flows>>
  /\ UNCHANGED uploads

\* mutation: the new image is put in front of the accumulated results
BatchResults_Prepends(currentResults, p, response) ==
  LET k == IF response.ok THEN FirstImagePart(response.parts) ELSE 0
  IN  IF k # 0
      THEN <<NewImage(prompts[p].name, response.parts[k])>> \o currentResults
      ELSE currentResults

\* the inner for loop of one preset: the accumulated results after it
BatchResults(currentResults, p, response) ==
  LET k == IF response.ok THEN FirstImagePart(response.parts) ELSE 0
  IN  IF k # 0
      THEN Append(currentResults, NewImage(prompts[p].name, response.parts[k]))
      ELSE currentResults

\* mutation: only the new image is published, not the accumulated results
BatchPublish_OnlyNewImage(s, currentResults, p, response) ==
  LET results == BatchResults(currentResults, p, response)
  IN  IF results # currentResults
      THEN setState(s, [generatedImages |-> Some(<<results[Len(results)]>>)])
      ELSE s

\* mutation: a preset without image is reported in the state, as the single
\* flow does
BatchPublish_SurfacesError(s, currentResults, p, response) ==
  LET results == BatchResults(currentResults, p, response)
  IN  IF results # currentResults
      THEN setState(s, [generatedImages |-> Some(results)])
      ELSE setState(s, [error |-> Some(<<"An error occurred: ">> \o NoImageMessage)])

\* the state after the inner for loop of one preset
BatchPublish(s, currentResults, p, response) ==
  LET results == BatchResults(currentResults, p, response)
  IN  IF results # currentResults
      THEN setState(s, [generatedImages |-> Some(results)])
      ELSE s

\* the continuation after the await of preset flows[i].index, when another
\* preset follows: up to the next `await ai.models.generateContent`
BatchStep(i) ==
  /\ i \in 1..Len(flows)
  /\ flows[i].kind = "batch"
  /\ flows[i].index < Len(prompts)
  /\ \E response \in Responses(flows[i].req) :
       LET f == flows[i]
           s1 == BatchPublish(state, f.currentResults, f.index, response)
       IN  /\ state' = s1
           /\ flows' = [flows EXCEPT ![i] =
                Flow("batch", f.index + 1,
                     BatchResults(f.currentResults, f.index, response),
                     BuildRequest(s1, prompts[f.index + 1].prompt),
                     Logged(f, response), f.disturbed)]
  /\ ev' = Step("batchStep")
  /\ UNCHANGED uploads

\* the continuation after the await of the last preset, to the end
BatchDone(i) ==
  /\ i \in 1..Len(flows)
  /\ flows[i].kind = "batch"
  /\ flows[i].index = Len(prompts)
  /\ \E response \in Responses(flows[i].req) :
       LET f == flows[i]
           s1 == BatchPublish(state, f.currentResults, f.index, response)
       IN  /\ state' = setState(s1, [isLoading |-> FALSE])
           /\ ev' = Event("batchDone", <<>>, Logged(f, response), f.disturbed)
  /\ flows' = RemoveAt(flows, i)
  /\ UNCHANGED uploads

Next ==
  \/ \E files \in FileLists : handleImageUpload(files)
  \/ \E i \in 1..MaxUploads : UploadResolved(i)
  \/ \E i \in 1..MaxUploads : UploadRejected(i)
  \/ \E k \in ClickedPresets : handlePresetClick(prompts[k].prompt)
  \/ \E value \in TypedPrompts : handlePromptInput(value)
  \/ handleGenerate
  \/ \E i \in 1..MaxFlows : GenerateSettled(i)
  \/ handleGenerateAll
  \/ \E i \in 1..MaxFlows : BatchStep(i)
  \/ \E i \in 1..MaxFlows : BatchDone(i)

Spec == Init /\ [][Next]_vars

\* every call to the external model eventually resolves or rejects, so the
\* continuation of a flow that waits for one eventually runs
Settled ==
  \E i \in 1..MaxFlows : GenerateSettled(i) \/ BatchStep(i) \/ BatchDone(i)

\* the user actions with one image file, one other file and one typed value:
\* what the calls return and how the steps interleave is as in Next
LiveFileLists == { <<f>> : f \in { g \in Files : g.name # "bag.jpg" } }
LiveTypedPrompts == { <<>> }

LiveNext ==
  \/ \E files \in LiveFileLists : handleImageUpload(files)
  \/ \E i \in 1..MaxUploads : UploadResolved(i)
  \/ \E i \in 1..MaxUploads : UploadRejected(i)
  \/ \E k \in ClickedPresets : handlePresetClick(prompts[k].prompt)
  \/ \E value \in LiveTypedPrompts : handlePromptInput(value)
  \/ handleGenerate
  \/ \E i \in 1..MaxFlows : GenerateSettled(i)
  \/ handleGenerateAll
  \/ \E i \in 1..MaxFlows : BatchStep(i)
  \/ \E i \in 1..MaxFlows : BatchDone(i)

LiveSpec == Init /\ [][LiveNext]_vars /\ WF_vars(Settled)

\* ---- the encoder on its own ----
\* tokens a file's type may go on with after image/, and how many of them
MaxTypeTail == 2
TypeTokens == {"png", "svg+xml", "charset=utf-8", ";", ",", ":"}

\* tokens of a payload, and how many of them
MaxPayloadLen == 2
PayloadTokens == {"QUJD", "+/8=", ";", ",", ":"}

SeqsUpTo(tokens, n) == UNION { [1..k -> tokens] : k \in 0..n }

\* file.type of the files handleImageUpload lets through
MediaTypes == { <<"image/">> \o t : t \in SeqsUpTo(TypeTokens, MaxTypeTail) }
Payloads == SeqsUpTo(PayloadTokens, MaxPayloadLen)

\* one picked file waits for the file reader; its type and content are any
EncoderInit ==
  /\ state = [originalImage |-> Null, generatedImages |-> Null,
              prompt |-> <<>>, isLoading |-> FALSE, error |-> Null]
  /\ \E m \in MediaTypes, p \in Payloads :
       uploads = <<[name |-> "probe", type |-> m, content |-> p]>>
  /\ flows = <<>>
  /\ ev = Event("upload", <<uploads[1]>>, <<>>, FALSE)

\* the file is read, then a batch builds its first request from it
EncoderNext ==
  \/ \E i \in 1..MaxUploads : UploadResolved(i)
  \/ handleGenerateAll

EncoderSpec == EncoderInit /\ [][EncoderNext]_vars

\* ---- properties ----
IsImageType(type) == Len(type) >= 1 /\ type[1] = "image/"

FlowDone == ev.op \in {"generateDone", "batchDone"}

\* the images the mocked client served in a flow, named after the presets of
\* the calls that got them, in call order
RECURSIVE ServedResults(_, _)
ServedResults(log, k) ==
  IF k > Len(log) THEN <<>>
  ELSE IF log[k].served = Null THEN ServedResults(log, k + 1)
  ELSE <<[name |-> prompts[k].name,
          base64 |-> <<"data", ":">> \o log[k].served[1].mimeType
                     \o <<";", "base64", ",">> \o log[k].served[1].data]>>
       \o ServedResults(log, k + 1)

\* the calls of log that were served an image
Successes(log) == { k \in 1..Len(log) : log[k].served # Null }

\* C1: a generate click with no original image, an empty prompt or loading
\* already true changes no field of the state and issues no request
C1_GenerateNoOp ==
  [][(/\ ev'.op = "generate"
      /\ (state.originalImage = Null \/ state.prompt = <<>> \/ state.isLoading))
     => (state' = state /\ flows' = flows)]_vars

\* generate was clicked with an image loaded and an empty prompt
C1_Witness ==
  /\ ev.op = "generate"
  /\ state.originalImage # Null
  /\ state.prompt = <<>>
  /\ ~state.isLoading

\* C2: at most one request to the external model is outstanding, and a batch
\* has had every earlier request settled when it waits for the next
C2_OneOutstanding ==
  /\ Outstanding <= 1
  /\ \A i \in 1..Len(flows) :
       flows[i].kind = "batch" => Len(flows[i].log) = flows[i].index - 1

\* generate was clicked while a batch waited for its third request
C2_Witness ==
  /\ ev.op = "generate"
  /\ state.prompt # <<>>
  /\ Outstanding = 1
  /\ flows[1].kind = "batch"
  /\ flows[1].index = 3

\* C3: when a single or batch flow completes, isLoading is false
C3_LoadingFalseAfterFlow == FlowDone => ~state.isLoading

\* a single flow whose call was rejected completed after an upload ran
C3_Witness ==
  /\ ev.op = "generateDone"
  /\ ev.log[1].served = Null
  /\ state.error = Some(<<"An error occurred: ", "503 Service Unavailable">>)
  /\ ev.disturbed

\* C4: when a batch that no upload continuation interrupted completes,
\* generatedImages is exactly the results of the presets that were served an
\* image, named after them and in preset order, and error is null
C4_BatchResults ==
  (ev.op = "batchDone" /\ ~ev.disturbed) =>
    /\ Len(ev.log) = Len(prompts)
    /\ state.generatedImages = Some(ServedResults(ev.log, 1))
    /\ state.error = Null

\* presets 1 and 3 succeeded, presets 2, 4 and 5 failed
C4_Witness ==
  /\ ev.op = "batchDone"
  /\ ~ev.disturbed
  /\ Successes(ev.log) = {1, 3}
  /\ Len(state.generatedImages[1]) = 2
  /\ state.generatedImages[1][1].name = "Natural Elegance"
  /\ state.generatedImages[1][2].name = "Cozy Style"

\* C5: after a single flow whose response has an image block, generatedImages
\* is one entry named "Custom Prompt" with the media type and payload of the
\* first image block
C5_SingleResult ==
  (ev.op = "generateDone" /\ ev.log[1].served # Null) =>
    state.generatedImages =
      Some(<<[name |-> "Custom Prompt",
              base64 |-> <<"data", ":">> \o ev.log[1].served[1].mimeType
                         \o <<";", "base64", ",">> \o ev.log[1].served[1].data]>>)

\* a single flow was served an image
C5_Witness ==
  /\ ev.op = "generateDone"
  /\ ev.log[1].served # Null
  /\ Len(state.generatedImages[1]) = 1

\* C6: after a single flow whose response has no image block or whose call
\* failed, error is set and generatedImages is null
C6_SingleFailure ==
  (ev.op = "generateDone" /\ ev.log[1].served = Null) =>
    (state.error # Null /\ state.generatedImages = Null)

\* a single flow got a response with no image block
C6_Witness ==
  /\ ev.op = "generateDone"
  /\ ev.log[1].served = Null
  /\ state.error = Some(<<"An error occurred: ">> \o NoImageMessage)

\* C7: a generate-all click with no original image or with loading true
\* changes no field of the state and issues no request
C7_GenerateAllNoOp ==
  [][(/\ ev'.op = "generateAll"
      /\ (state.originalImage = Null \/ state.isLoading))
     => (state' = state /\ flows' = flows)]_vars

\* generate-all was clicked while a single flow was in flight
C7_Witness ==
  /\ ev.op = "generateAll"
  /\ Len(flows) = 1
  /\ flows[1].kind = "single"
  /\ state.isLoading

\* C8: a successful read of an uploaded image file sets originalImage to the
\* file and its encoded form, sets generatedImages and error to null and
\* leaves prompt and isLoading as they were
C8_UploadResolved ==
  [][ev'.op = "uploadResolved" =>
       \E i \in 1..Len(uploads) :
         /\ uploads' = SubSeq(uploads, 1, i - 1) \o SubSeq(uploads, i + 1, Len(uploads))
         /\ IsImageType(uploads[i].type)
         /\ state' = [originalImage |->
                        Some([file |-> uploads[i],
                              base64 |-> <<"data", ":">> \o uploads[i].type
                                         \o <<";", "base64", ",">>
                                         \o uploads[i].content]),
                      generatedImages |-> Null,
                      error |-> Null,
                      prompt |-> state.prompt,
                      isLoading |-> state.isLoading]]_vars

\* an upload replaced the image while a batch with published results and a
\* read error on display was in flight
C8_Witness ==
  /\ ev.op = "uploadResolved"
  /\ state.isLoading
  /\ Len(flows) = 1
  /\ flows[1].currentResults # <<>>
  /\ flows[1].req.data # getBase64Data(state.originalImage[1].base64)

\* C9: selecting no file, or a file whose type does not start with image/,
\* changes no field of the state and starts no read
C9_NonImageIgnored ==
  [][(/\ ev'.op = "upload"
      /\ (ev'.files = <<>> \/ ~IsImageType(ev'.files[1].type)))
     => (state' = state /\ uploads' = uploads /\ flows' = flows)]_vars

\* a text file was selected while a flow was in flight
C9_Witness ==
  /\ ev.op = "upload"
  /\ ev.files # <<>>
  /\ ev.files[1].name = "notes.txt"
  /\ state.isLoading

\* C10: a failed read of an uploaded image file changes error to the
\* read-failure message and no other field of the state
C10_UploadRejected ==
  [][ev'.op = "uploadRejected" =>
       state' = [state EXCEPT
                   !.error = Some(<<"Could not read the selected image file.">>)]]_vars

\* a read failed with an image and generated results in the state
C10_Witness ==
  /\ ev.op = "uploadRejected"
  /\ state.originalImage # Null
  /\ state.generatedImages # Null
  /\ state.generatedImages[1] # <<>>
  /\ state.error = Some(<<"Could not read the selected image file.">>)

Has(s, c) == \E i \in 1..Len(s) : s[i] = c

\* C11 as stated: for every media type m and payload p, the request built
\* from data:<m>;base64,<p> carries exactly m and exactly p
C11_RoundTripAnyType ==
  \A i \in 1..Len(flows) :
    /\ flows[i].req.mimeType = state.originalImage[1].file.type
    /\ flows[i].req.data = state.originalImage[1].file.content

\* C11: for every media type m that contains neither ';' nor ',' and every
\* payload p, getMimeType and getBase64Data applied to data:<m>;base64,<p>
\* return exactly m and exactly p
C11_RoundTrip ==
  \A i \in 1..Len(flows) :
    LET m == state.originalImage[1].file.type
        p == state.originalImage[1].file.content
    IN  (~Has(m, ";") /\ ~Has(m, ",")) =>
          /\ state.originalImage[1].base64 =
               <<"data", ":">> \o m \o <<";", "base64", ",">> \o p
          /\ flows[i].req.mimeType = m
          /\ flows[i].req.data = p

\* a request was built from a type with a ':' in it and a payload with the
\* three delimiters in it
C11_Witness ==
  /\ Len(flows) = 1
  /\ state.originalImage[1].file.type = <<"image/", ":", "png">>
  /\ state.originalImage[1].file.content = <<",", ";">>
  /\ flows[1].req.mimeType = <<"image/", ":", "png">>
  /\ flows[1].req.data = <<",", ";">>

\* text of the request of preset k
PresetText(k) == prompts[k].prompt \o <<" ">> \o <<"Keep the product exactly the same.">>

\* the calls a batch has made so far are those of presets 1..n, one each
PresetCalls(log, n) ==
  /\ Len(log) = n
  /\ \A k \in 1..n : log[k].text = PresetText(k)

\* the requests a flow in flight has made and the one it waits for, and those
\* a completed flow made
C12_Requests ==
  /\ \A i \in 1..Len(flows) :
       /\ flows[i].kind = "batch" =>
            /\ flows[i].index \in 1..5
            /\ PresetCalls(flows[i].log, flows[i].index - 1)
            /\ flows[i].req.text = PresetText(flows[i].index)
       /\ flows[i].kind = "single" => flows[i].log = <<>>
  /\ ev.op = "batchDone" => PresetCalls(ev.log, 5)
  /\ ev.op = "generateDone" => Len(ev.log) = 1

\* a step of a batch leaves error as it is, or null when the batch starts
C12_BatchErrorWrites ==
  /\ ev'.op \in {"batchStep", "batchDone"} => state'.error = state.error
  /\ ev'.op = "generateAll" => state'.error \in {state.error, Null}

\* C12: a batch issues one request per preset, in preset order, five in all,
\* whatever the calls return, and writes no non-null error; a single flow
\* issues exactly one request
C12_OneRequestPerPreset == []C12_Requests /\ [][C12_BatchErrorWrites]_vars

\* a batch whose five calls all failed completed with no error in the state
C12_Witness ==
  /\ ev.op = "batchDone"
  /\ Len(ev.log) = 5
  /\ Successes(ev.log) = {}
  /\ state.error = Null
  /\ state.generatedImages = Some(<<>>)

\* C13: when a single flow concludes, either generatedImages is a one-element
\* sequence and error is null, or error is set and generatedImages is null
C13_SingleTerminalOutcome ==
  ev.op = "generateDone" =>
    \/ /\ state.generatedImages # Null
       /\ Len(state.generatedImages[1]) = 1
       /\ state.error = Null
    \/ /\ state.error # Null
       /\ state.generatedImages = Null

\* C14: once isLoading is true it eventually becomes false again, whatever
\* the user does meanwhile, given that every call to the model settles
C14_FlowReturnsToIdle ==
  /\ state.isLoading ~> ~state.isLoading
  /\ [][ev'.op \notin {"generateDone", "batchDone"} => Len(flows') >= Len(flows)]_vars

\* a batch reached its last request although an upload resolved, generate
\* was refused and the user then clicked generate-all while it was in flight
C14_Witness ==
  /\ Len(flows) = 1
  /\ flows[1].kind = "batch"
  /\ flows[1].index = 5
  /\ flows[1].disturbed
  /\ ev.op = "generateAll"
  /\ state.isLoading

\* the names of images are names of presets, in preset order, none twice
InPresetOrder(images) ==
  /\ \A j \in 1..Len(images) : \E k \in 1..Len(prompts) : prompts[k].name = images[j].name
  /\ \A i, j \in 1..Len(images) :
       i < j => \E k, l \in 1..Len(prompts) :
                  /\ k < l
                  /\ prompts[k].name = images[i].name
                  /\ prompts[l].name = images[j].name

\* C15: right after a call of a batch was served an image, generatedImages is
\* the sequence of all results served so far, in preset order; while a batch
\* is in flight the names in generatedImages are an in-order, duplicate-free
\* subsequence of the preset names
C15_PartialResultsPublished ==
  /\ \A i \in 1..Len(flows) :
       flows[i].kind = "batch" =>
         /\ (ev.op = "batchStep" /\ flows[i].log[Len(flows[i].log)].served # Null)
              => state.generatedImages = Some(ServedResults(flows[i].log, 1))
         /\ state.generatedImages # Null => InPresetOrder(state.generatedImages[1])
  /\ (ev.op = "batchDone" /\ ev.log[Len(ev.log)].served # Null)
       => state.generatedImages = Some(ServedResults(ev.log, 1))

\* the third result of a batch was published after an upload had cleared
\* the first two, with preset 2 having failed
C15_Witness ==
  /\ ev.op = "batchStep"
  /\ Len(flows) = 1
  /\ flows[1].disturbed
  /\ flows[1].index = 5
  /\ Successes(flows[1].log) = {1, 3, 4}
  /\ Len(state.generatedImages[1]) = 3

ReadFailureShown == state.error = Some(<<"Could not read the selected image file.">>)

\* C16 as stated: from a failed read until an upload succeeds (the failure
\* message is on display for as long as neither an upload succeeded nor a
\* flow started), generate and generate-all start no flow, also when an
\* earlier image is still in the state
C16_FailedReadDisablesGeneration ==
  [][(ReadFailureShown /\ ev'.op \in {"generate", "generateAll"})
     => (flows' = flows /\ state' = state)]_vars

\* C16: a failed read sets error and leaves originalImage as it was; while no
\* original image is in the state, which only a successful read ends,
\* generate and generate-all start no flow and issue no request
C16_FailedReadWithoutImage ==
  /\ [][ev'.op = "uploadRejected" =>
          /\ state'.error = Some(<<"Could not read the selected image file.">>)
          /\ state'.originalImage = state.originalImage]_vars
  /\ [][state.originalImage = Null =>
          /\ ev'.op # "uploadResolved" => state'.originalImage = Null
          /\ ev'.op \in {"generate", "generateAll"} =>
               (flows' = flows /\ state' = state)]_vars
  /\ [](state.originalImage = Null => flows = <<>>)

\* generate-all was clicked after the first upload failed to read
C16_Witness ==
  /\ ev.op = "generateAll"
  /\ ReadFailureShown
  /\ state.originalImage = Null
  /\ state.prompt # <<>>
  /\ flows = <<>>

\* the payload of image is a rendering of the content of file
RenderedFrom(image, file) ==
  LET n == Len(file.content) + 1
      b == image.base64
  IN  /\ Len(b) >= n
      /\ \E rendering \in {"+scene", "+alt"} :
           SubSeq(b, Len(b) - n + 1, Len(b)) = file.content \o <<rendering>>

\* C17: every entry of generatedImages was produced by a request built from
\* the image that is in originalImage now
C17_ResultsOfCurrentImage ==
  state.generatedImages # Null =>
    \A j \in 1..Len(state.generatedImages[1]) :
      /\ state.originalImage # Null
      /\ RenderedFrom(state.generatedImages[1][j], state.originalImage[1].file)

\* C18: when a batch completes, generatedImages is the sequence of all its
\* successful results in preset order and error is null, also when uploads
\* completed while it was in flight
C18_BatchResultsDespiteUploads ==
  ev.op = "batchDone" =>
    /\ state.generatedImages = Some(ServedResults(ev.log, 1))
    /\ state.error = Null

\* C19: isLoading is true exactly when one flow has started and not yet
\* concluded, and only the steps of handleGenerate and handleGenerateAll
\* change it
C19_LoadingIffFlowInFlight ==
  /\ [](Len(flows) <= 1 /\ (state.isLoading <=> Len(flows) = 1))
  /\ [][state'.isLoading # state.isLoading =>
          ev'.op \in {"generate", "generateDone", "generateAll", "batchDone"}]_vars
  /\ [][ev'.op \in {"upload", "uploadResolved", "uploadRejected",
                     "presetClick", "promptInput"} =>
          state'.isLoading = state.isLoading]_vars

\* a preset was clicked while a single flow that an upload had interrupted
\* was in flight
C19_Witness ==
  /\ ev.op = "presetClick"
  /\ state.isLoading
  /\ Len(flows) = 1
  /\ flows[1].kind = "single"
  /\ flows[1].disturbed
====
